---- MODULE Spec2Model ----
(***************************************************************************)
(* Model of bpmn-beautifier: the graph -> Process Structure Tree           *)
(* structuring of pst_umwandler.py (parse_bpmn: start selection, bfs_dist, *)
(* find_join, build_path_until, build_pst_main), the text notation         *)
(* (Node.__repr__ / parse_pst_text) and the renderer BPMNBuilder.build of  *)
(* clean_bpmn_generator.py.                                                *)
(*                                                                         *)
(* A behaviour loads one flow graph, structures it step by step with an    *)
(* explicit call stack (one action per loop iteration of the backbone and  *)
(* of the branch builder), and then structures the same graph a second     *)
(* time (SpecTwice). Under SpecRender a behaviour takes one tree and       *)
(* renders it.                                                             *)
(***************************************************************************)
EXTENDS Integers, Sequences, FiniteSets, TLC

VARIABLES graph, start_id, stack, result, pc, run, first, picked, builder

vars == <<graph, start_id, stack, result, pc, run, first, picked, builder>>

\* ---------------------------------------------------------------- bounds
\* Number of nodes of the exhaustively enumerated graphs.
NumNodes == 3
\* Largest number of outgoing edges of a node in the enumerated graphs.
MaxOut == 2
\* Deepest call stack the model follows (build_pst_main plus nested
\* build_path_until calls); a call beyond it is not taken.
MaxDepth == 6
\* Deepest nesting and largest number of children of the trees handed to the
\* renderer directly.
MaxTreeDepth == 2
MaxKids == 2

\* Python's None for a node id, and "no value yet" for a memoised pick.
None == 0
Unset == -1
\* Python's None as a Node value (distinct from every label string).
PyNone == "<None>"
\* dm.get(n, 10**9): the distance reported for a node a branch does not reach.
Unreached == 1000000000

\* ----------------------------------------------------------- graph model
Tags == {"task", "start", "end", "xor", "and"}

Nodes == DOMAIN graph.tag
succ == graph.succ
tasks == {n \in Nodes : graph.tag[n] = "task"}
start_events == {n \in Nodes : graph.tag[n] = "start"}
end_events == {n \in Nodes : graph.tag[n] = "end"}
events == start_events \cup end_events
xor_gws == {n \in Nodes : graph.tag[n] = "xor"}
and_gws == {n \in Nodes : graph.tag[n] = "and"}
gateways == xor_gws \cup and_gws

is_xor(gw_id) == gw_id \in xor_gws
is_and(gw_id) == gw_id \in and_gws
outdeg(n) == Len(succ[n])
\* len(pred[n]): one entry per sequence flow whose target is n.
indeg(n) == Cardinality(UNION {{<<u, i>> : i \in {k \in DOMAIN succ[u] : succ[u][k] = n}} : u \in Nodes})

\* label(elem) for an element without a name attribute: its id.
label_by_id(nid) == graph.ids[nid]
\* f"Body_of_{label_by_id(hit)}"
BodyOfLabel(l) ==
  CASE l = "n1" -> "Body_of_n1" [] l = "n2" -> "Body_of_n2" [] l = "n3" -> "Body_of_n3"
    [] l = "n4" -> "Body_of_n4" [] l = "n5" -> "Body_of_n5"
    [] l = "Start" -> "Body_of_Start" [] l = "A" -> "Body_of_A" [] l = "X" -> "Body_of_X"
    [] l = "B" -> "Body_of_B" [] l = "C" -> "Body_of_C" [] l = "Join" -> "Body_of_Join"
    [] l = "D" -> "Body_of_D" [] l = "End" -> "Body_of_End"
BodyLabels == {"Body_of_n1", "Body_of_n2", "Body_of_n3", "Body_of_n4", "Body_of_n5",
               "Body_of_Start", "Body_of_A", "Body_of_X", "Body_of_B", "Body_of_C",
               "Body_of_Join", "Body_of_D", "Body_of_End"}

\* ------------------------------------------------------------ input graphs
SmallIds == <<"n1", "n2", "n3", "n4", "n5">>
SeqsUpTo(S, k) == UNION {[1..m -> S] : m \in 0..k}
TagRank(t) == CASE t = "task" -> 1 [] t = "start" -> 2 [] t = "end" -> 3 [] t = "xor" -> 4 [] t = "and" -> 5
\* Every graph of NumNodes nodes, each node of any kind and with up to MaxOut
\* outgoing flows (parallel flows and self loops included), up to renaming:
\* the code reads document order only among elements of one kind (each dict
\* holds one kind), so the nodes are numbered kind by kind.
SmallGraphs ==
  {[ids |-> [n \in 1..NumNodes |-> SmallIds[n]], tag |-> t, succ |-> s] :
     t \in {f \in [1..NumNodes -> Tags] :
              \A a, b \in 1..NumNodes : a < b => TagRank(f[a]) <= TagRank(f[b])},
     s \in [1..NumNodes -> SeqsUpTo(1..NumNodes, MaxOut)]}
\* Start -> A -> X -> {B, C} -> Join -> D -> End, X and Join exclusive.
RoundTripGraph ==
  [ids |-> <<"Start", "A", "X", "B", "C", "Join", "D", "End">>,
   tag |-> <<"start", "task", "xor", "task", "task", "xor", "task", "end">>,
   succ |-> <<(<<2>>), (<<3>>), (<<4, 5>>), (<<6>>), (<<6>>), (<<7>>), (<<8>>), (<<>>)>>]
\* Start -> A -> X -> B -> A, X exclusive with the single successor B.
LoopGraph ==
  [ids |-> <<"Start", "A", "X", "B">>,
   tag |-> <<"start", "task", "xor", "task">>,
   succ |-> <<(<<2>>), (<<3>>), (<<4>>), (<<2>>)>>]
Graphs == SmallGraphs \cup {RoundTripGraph, LoopGraph}

\* ------------------------------------------------------------- start node
MinOf(S) == CHOOSE x \in S : \A y \in S : x <= y
\* StartChoices with the in-degree test of the start events left out.
StartChoices_FirstStartEvent ==
  IF start_events # {} THEN {MinOf(start_events)}
  ELSE LET candidates == {n \in Nodes : indeg(n) = 0}
       IN IF candidates # {} THEN candidates
          ELSE IF tasks # {} THEN {MinOf(tasks)}
          ELSE IF events # {} THEN {MinOf(events)}
          ELSE IF xor_gws # {} THEN {MinOf(xor_gws)}
          ELSE {MinOf(and_gws)}
\* The values start_id can take. Dicts iterate in document order; the
\* candidates of the fallback come from a set of id strings, whose iteration
\* order differs from process to process (string hashing), so candidates[0]
\* is any of them.
StartChoices ==
  IF start_events # {}
  THEN LET noin == {s \in start_events : indeg(s) = 0}
       IN IF noin # {} THEN {MinOf(noin)} ELSE {MinOf(start_events)}
  ELSE LET candidates == {n \in Nodes : indeg(n) = 0}
       IN IF candidates # {} THEN candidates
          ELSE IF tasks # {} THEN {MinOf(tasks)}
          ELSE IF events # {} THEN {MinOf(events)}
          ELSE IF xor_gws # {} THEN {MinOf(xor_gws)}
          ELSE {MinOf(and_gws)}

\* ------------------------------------------------- reachability and joins
RECURSIVE BfsLevels(_, _, _)
\* Breadth-first levels from `frontier` (all at distance d): the dist map.
BfsLevels(frontier, d, dist) ==
  IF frontier = {} THEN dist
  ELSE LET nxt == {v \in Nodes : dist[v] = Unreached /\ v \notin frontier
                                  /\ \E u \in frontier : \E i \in DOMAIN succ[u] : succ[u][i] = v}
       IN BfsLevels(nxt, d + 1, [n \in Nodes |-> IF n \in nxt THEN d + 1 ELSE dist[n]])
\* bfs_dist(start) with stop=None (its only use): dist, with Unreached
\* for the nodes outside `visited`.
bfs_dist(start) ==
  BfsLevels({start}, 0, [n \in Nodes |-> IF n = start THEN 0 ELSE Unreached])

MaxOfSet(S) == CHOOSE x \in S : \A y \in S : y <= x
\* is_candidate without the in-degree test.
is_candidate_AnyIndegree(n, kind) ==
  /\ n \in gateways
  /\ (kind = "XOR" /\ is_xor(n)) \/ (kind = "AND" /\ is_and(n))
is_candidate(n, kind) ==
  /\ n \in gateways
  /\ (kind = "XOR" /\ is_xor(n)) \/ (kind = "AND" /\ is_and(n))
  /\ indeg(n) > 1
score(n, dist_maps) == MaxOfSet({dist_maps[i][n] : i \in DOMAIN dist_maps})
\* The values find_join(split_id, kind) can return: cands is built by
\* iterating a set and sorted stably by score, so cands[0] is any candidate
\* of minimal score.
find_join(split_id, kind) ==
  LET outs == succ[split_id]
  IN IF Len(outs) <= 1 THEN {None}
     ELSE LET dist_maps == [i \in DOMAIN outs |-> bfs_dist(outs[i])]
              common == {n \in Nodes : \A i \in DOMAIN outs : dist_maps[i][n] # Unreached}
              cands == {n \in common : is_candidate(n, kind)}
          IN IF cands = {} THEN {None}
             ELSE {n \in cands : \A m \in cands : score(n, dist_maps) <= score(m, dist_maps)}

\* ---------------------------------------------------------------- PST nodes
\* Node(ntype, value, children); Node("NULL") has value None and no children.
Node(ntype, value, children) == [ntype |-> ntype, value |-> value, children |-> children]
NullNode == Node("NULL", PyNone, <<>>)
NoTree == Node("", PyNone, <<>>)

\* The return normalization of both builders.
Normalize(seq_children) ==
  IF seq_children = <<>> THEN NullNode
  ELSE IF Len(seq_children) = 1 THEN seq_children[1]
  ELSE Node("SEQ", PyNone, seq_children)

\* kind = "XOR" if is_xor(current) else ("AND" if is_and(current) else "XOR")
KindOf(n) == IF is_xor(n) THEN "XOR" ELSE IF is_and(n) THEN "AND" ELSE "XOR"

\* edge_hits_active_split(u, active_split_stack): the first successor of u
\* that is on the stack, else None.
edge_hits_active_split(u, active_split_stack) ==
  LET active_set == {active_split_stack[i] : i \in DOMAIN active_split_stack}
      hits == {i \in DOMAIN succ[u] : succ[u][i] \in active_set}
  IN IF hits = {} THEN None ELSE succ[u][MinOf(hits)]

\* The loop node returned on a loopback edge.
LoopNode(node_id, hit, seq_children) ==
  LET condition_branch == IF Len(seq_children) > 1 THEN Node("SEQ", PyNone, seq_children)
                          ELSE IF seq_children # <<>> THEN seq_children[1] ELSE NullNode
      loop_body == IF node_id = hit THEN NullNode
                   ELSE Node("SEQ", PyNone, <<Node("TASK", BodyOfLabel(label_by_id(hit)), <<>>)>>)
  IN Node("LOOP", PyNone, <<condition_branch, loop_body>>)

\* ------------------------------------------------------------- call frames
\* One activation of build_pst_main (fn = "main") or build_path_until
\* (fn = "path") with its locals; pos is "loop" at the head of the while loop
\* and "kids" inside the for loop over succ[current].
Frame(fn, node_id, stop_id, active) ==
  [fn |-> fn, node_id |-> node_id, stop_id |-> stop_id, active_split_stack |-> active,
   seq_children |-> <<>>, q |-> IF fn = "main" THEN <<node_id>> ELSE <<>>, seen |-> {},
   current |-> IF fn = "main" THEN None ELSE node_id,
   kind |-> "", join |-> None, kids |-> <<>>, pos |-> "loop"]

Top == stack[Len(stack)]
SetTop(f) == [stack EXCEPT ![Len(stack)] = f]
\* return value: pop the callee, append to the caller's kids.
Deliver(value) ==
  LET caller == Len(stack) - 1
  IN [i \in 1..caller |-> IF i = caller THEN [stack[i] EXCEPT !.kids = Append(@, value)]
                          ELSE stack[i]]
Butlast(sq) == SubSeq(sq, 1, Len(sq) - 1)
NoPicks == [n \in Nodes |-> Unset]
\* find_join within one run: the same call returns the same node.
JoinPick(split_id, kind) ==
  IF picked[split_id] # Unset THEN {picked[split_id]} ELSE find_join(split_id, kind)

\* A BPMNBuilder before build is called: no element, flow, shape or edge yet.
NewBuilder == [next_id |-> 1, elements |-> <<>>, flows |-> <<>>, shapes_info |-> <<>>, edges |-> <<>>]

Init ==
  /\ graph \in Graphs
  /\ start_id \in StartChoices
  /\ stack = <<Frame("main", start_id, None, <<>>)>>
  /\ result = NoTree
  /\ pc = "run"
  /\ run = 1
  /\ first = NoTree
  /\ picked = NoPicks
  /\ builder = NewBuilder

InMain == pc = "run" /\ Len(stack) = 1 /\ Top.fn = "main"
MainHead == InMain /\ Top.pos = "loop" /\ Top.q # <<>>
Finish(f) ==
  /\ stack' = SetTop(f)
  /\ result' = Normalize(f.seq_children)
  /\ pc' = "done"
  /\ UNCHANGED <<graph, start_id, run, first, picked, builder>>
Continue(f) ==
  /\ stack' = SetTop(f)
  /\ UNCHANGED <<graph, start_id, result, pc, run, first, picked, builder>>
\* `if nxts: q.append(nxts[0])`
FirstOf(nxts) == IF nxts # <<>> THEN <<nxts[1]>> ELSE <<>>
\* `nxts[0] if len(nxts) == 1 else None`
OnlyOf(nxts) == IF Len(nxts) = 1 THEN nxts[1] ELSE None

\* ------------------------------------------------ build_pst_main (backbone)
\* while q: falls through when the queue is empty.
MainReturn ==
  /\ InMain /\ Top.pos = "loop" /\ Top.q = <<>>
  /\ Finish(Top)

\* MainLoopback that stops without the LOOPBACK sentinel.
MainLoopback_NoSentinel ==
  /\ MainHead
  /\ Head(Top.q) \in Top.seen
  /\ Finish([Top EXCEPT !.q = <<>>, !.current = Head(Top.q)])

MainLoopback ==
  /\ MainHead
  /\ LET current == Head(Top.q)
     IN /\ current \in Top.seen
        /\ Finish([Top EXCEPT !.q = <<>>, !.current = current,
                     !.seq_children = Append(@, Node("LOOPBACK", label_by_id(current), <<>>))])

MainTask ==
  /\ MainHead
  /\ LET current == Head(Top.q)
         nxts == succ[current]
     IN /\ current \notin Top.seen /\ current \in tasks /\ Len(nxts) <= 1
        /\ Continue([Top EXCEPT !.current = current, !.seen = @ \cup {current},
                       !.seq_children = Append(@, Node("TASK", label_by_id(current), <<>>)),
                       !.q = IF Len(nxts) = 1 THEN <<nxts[1]>> ELSE <<>>])

MainTaskSplit ==
  /\ MainHead
  /\ LET current == Head(Top.q)
     IN /\ current \notin Top.seen /\ current \in tasks /\ Len(succ[current]) > 1
        /\ \E join \in JoinPick(current, "XOR") :
             /\ stack' = SetTop([Top EXCEPT !.current = current, !.seen = @ \cup {current}, !.q = <<>>,
                          !.seq_children = Append(@, Node("TASK", label_by_id(current), <<>>)),
                          !.kind = "XOR", !.join = join, !.kids = <<>>, !.pos = "kids",
                          !.active_split_stack = Append(@, current)])
             /\ picked' = [picked EXCEPT ![current] = join]
        /\ UNCHANGED <<graph, start_id, result, pc, run, first, builder>>

MainEvent ==
  /\ MainHead
  /\ LET current == Head(Top.q)
     IN /\ current \notin Top.seen /\ current \in events
        /\ Continue([Top EXCEPT !.current = current, !.seen = @ \cup {current},
                       !.seq_children = Append(@, Node("EVENT", label_by_id(current), <<>>)),
                       !.q = FirstOf(succ[current])])

MainGatewaySplit ==
  /\ MainHead
  /\ LET current == Head(Top.q)
     IN /\ current \notin Top.seen /\ current \in gateways /\ outdeg(current) > 1
        /\ \E join \in JoinPick(current, KindOf(current)) :
             /\ stack' = SetTop([Top EXCEPT !.current = current, !.seen = @ \cup {current}, !.q = <<>>,
                          !.kind = KindOf(current), !.join = join, !.kids = <<>>, !.pos = "kids",
                          !.active_split_stack = Append(@, current)])
             /\ picked' = [picked EXCEPT ![current] = join]
        /\ UNCHANGED <<graph, start_id, result, pc, run, first, builder>>

MainPass ==
  /\ MainHead
  /\ LET current == Head(Top.q)
     IN /\ current \notin Top.seen /\ current \in gateways /\ outdeg(current) <= 1
        /\ Continue([Top EXCEPT !.current = current, !.seen = @ \cup {current},
                       !.q = FirstOf(succ[current])])

MainKids == InMain /\ Top.pos = "kids" /\ Len(Top.kids) < Len(succ[Top.current])
NextOut(f) == succ[f.current][Len(f.kids) + 1]

\* `if join and o == join: kids.append(Node("NULL"))`
MainKidNull ==
  /\ MainKids
  /\ Top.join # None /\ NextOut(Top) = Top.join
  /\ Continue([Top EXCEPT !.kids = Append(@, NullNode)])

\* kids.append(build_path_until(o, join, active_split_stack.copy()))
MainKidCall ==
  /\ MainKids
  /\ ~(Top.join # None /\ NextOut(Top) = Top.join)
  /\ Len(stack) < MaxDepth
  /\ stack' = Append(stack, Frame("path", NextOut(Top), Top.join, Top.active_split_stack))
  /\ UNCHANGED <<graph, start_id, result, pc, run, first, picked, builder>>

MainSplitDone(f) ==
  [f EXCEPT !.seq_children = Append(@, Node(f.kind, label_by_id(f.current), f.kids)),
            !.active_split_stack = Butlast(@), !.pos = "loop"]

\* After the branches of a split with a join (or of a task split): enqueue
\* the join's first successor and continue.
MainSplitContinue ==
  /\ InMain /\ Top.pos = "kids" /\ Len(Top.kids) = Len(succ[Top.current])
  /\ Top.join # None \/ Top.current \in tasks
  /\ Continue([MainSplitDone(Top) EXCEPT
                 !.q = IF Top.join # None THEN FirstOf(succ[Top.join]) ELSE <<>>])

\* MainSplitNoJoin that goes on along the split's first outgoing flow.
MainSplitNoJoin_Continue ==
  /\ InMain /\ Top.pos = "kids" /\ Len(Top.kids) = Len(succ[Top.current])
  /\ Top.join = None /\ Top.current \in gateways
  /\ Continue([MainSplitDone(Top) EXCEPT !.q = FirstOf(succ[Top.current])])

\* After the branches of a gateway split without join: break.
MainSplitNoJoin ==
  /\ InMain /\ Top.pos = "kids" /\ Len(Top.kids) = Len(succ[Top.current])
  /\ Top.join = None /\ Top.current \in gateways
  /\ Finish(MainSplitDone(Top))

\* --------------------------------------------- build_path_until (branches)
InPath == pc = "run" /\ Len(stack) > 1 /\ Top.fn = "path"
WhileCond(f) == f.current # None /\ f.current # f.stop_id /\ f.current \notin f.seen
PathHead == InPath /\ Top.pos = "loop" /\ WhileCond(Top)
Hit(f) == edge_hits_active_split(f.current, f.active_split_stack)
Return(value) ==
  /\ stack' = Deliver(value)
  /\ UNCHANGED <<graph, start_id, result, pc, run, first, picked, builder>>

PathReturn ==
  /\ InPath /\ Top.pos = "loop" /\ ~WhileCond(Top)
  /\ Return(Normalize(Top.seq_children))

PathLoop ==
  /\ PathHead
  /\ Hit(Top) # None
  /\ Return(LoopNode(Top.node_id, Hit(Top), Top.seq_children))

PathTask ==
  /\ PathHead /\ Hit(Top) = None
  /\ Top.current \in tasks
  /\ Continue([Top EXCEPT !.seen = @ \cup {Top.current},
                 !.seq_children = Append(@, Node("TASK", label_by_id(Top.current), <<>>)),
                 !.current = OnlyOf(succ[Top.current])])

PathEvent ==
  /\ PathHead /\ Hit(Top) = None
  /\ Top.current \in events
  /\ Continue([Top EXCEPT !.seen = @ \cup {Top.current},
                 !.seq_children = Append(@, Node("EVENT", label_by_id(Top.current), <<>>)),
                 !.current = OnlyOf(succ[Top.current])])

PathSplit ==
  /\ PathHead /\ Hit(Top) = None
  /\ Top.current \in gateways /\ outdeg(Top.current) > 1
  /\ \E join \in JoinPick(Top.current, KindOf(Top.current)) :
       /\ join # Top.current
       /\ stack' = SetTop([Top EXCEPT !.seen = @ \cup {Top.current},
                    !.kind = KindOf(Top.current), !.join = join, !.kids = <<>>, !.pos = "kids",
                    !.active_split_stack = Append(@, Top.current)])
       /\ picked' = [picked EXCEPT ![Top.current] = join]
  /\ UNCHANGED <<graph, start_id, result, pc, run, first, builder>>

\* `if join == current: break`, then the return normalization.
PathSelfJoin ==
  /\ PathHead /\ Hit(Top) = None
  /\ Top.current \in gateways /\ outdeg(Top.current) > 1
  /\ \E join \in JoinPick(Top.current, KindOf(Top.current)) :
       /\ join = Top.current
       /\ stack' = Deliver(Normalize(Top.seq_children))
       /\ picked' = [picked EXCEPT ![Top.current] = join]
  /\ UNCHANGED <<graph, start_id, result, pc, run, first, builder>>

PathPass ==
  /\ PathHead /\ Hit(Top) = None
  /\ Top.current \in gateways /\ outdeg(Top.current) <= 1
  /\ Continue([Top EXCEPT !.seen = @ \cup {Top.current},
                 !.current = OnlyOf(succ[Top.current])])

PathKids == InPath /\ Top.pos = "kids" /\ Len(Top.kids) < Len(succ[Top.current])

\* `if o == current: kids.append(Node("NULL"))`
PathKidNull ==
  /\ PathKids
  /\ NextOut(Top) = Top.current
  /\ Continue([Top EXCEPT !.kids = Append(@, NullNode)])

PathKidCall ==
  /\ PathKids
  /\ NextOut(Top) # Top.current
  /\ Len(stack) < MaxDepth
  /\ stack' = Append(stack, Frame("path", NextOut(Top), Top.join, Top.active_split_stack))
  /\ UNCHANGED <<graph, start_id, result, pc, run, first, picked, builder>>

\* succ.get(join, []): no successors for join = None.
PathSplitDone ==
  /\ InPath /\ Top.pos = "kids" /\ Len(Top.kids) = Len(succ[Top.current])
  /\ LET nxts_after_join == IF Top.join = None THEN <<>> ELSE succ[Top.join]
     IN Continue([Top EXCEPT
          !.seq_children = Append(@, Node(Top.kind, label_by_id(Top.current), Top.kids)),
          !.active_split_stack = Butlast(@), !.pos = "loop",
          !.current = IF nxts_after_join # <<>> THEN nxts_after_join[1] ELSE None])

\* ------------------------------------------------------------- second run
\* parse_bpmn is called again on the same document (a new process: the set
\* iteration orders are chosen afresh).
Restart ==
  /\ pc = "done" /\ run = 1
  /\ first' = result
  /\ run' = 2
  /\ start_id' \in StartChoices
  /\ stack' = <<Frame("main", start_id', None, <<>>)>>
  /\ result' = NoTree
  /\ pc' = "run"
  /\ picked' = NoPicks
  /\ UNCHANGED <<graph, builder>>

Next ==
  \/ MainReturn \/ MainLoopback \/ MainTask \/ MainTaskSplit \/ MainEvent
  \/ MainGatewaySplit \/ MainPass \/ MainKidNull \/ MainKidCall
  \/ MainSplitContinue \/ MainSplitNoJoin
  \/ PathReturn \/ PathLoop \/ PathTask \/ PathEvent \/ PathSplit \/ PathSelfJoin
  \/ PathPass \/ PathKidNull \/ PathKidCall \/ PathSplitDone

\* One structuring run per graph.
Spec == Init /\ [][Next]_vars

NextTwice == Next \/ Restart

\* The same graph structured twice.
SpecTwice == Init /\ [][NextTwice]_vars

\* ------------------------------------------------------- the text notation
\* A text is a sequence of tokens: "(", ")", ",", "\n", one "  " per indent
\* level, and words (\w+: node kinds and the one-word labels of the graphs).
IsSpace(t) == t \in {"\n", "  "}
IsWord(t) == ~IsSpace(t) /\ t \notin {"(", ")", ","}
Indent(level) == [i \in 1..level |-> "  "]
\* f"{self.value}": None prints as the word None.
Str(value) == IF value = PyNone THEN "None" ELSE value

RECURSIVE Repr(_, _)
RECURSIVE ReprChildren(_, _, _)
\* Node.__repr__(self, level)
Repr(node, level) ==
  IF node.ntype \in {"TASK", "EVENT", "NULL", "LOOPBACK"}
  THEN Indent(level) \o <<node.ntype, "(", Str(node.value), ")">>
  ELSE Indent(level) \o <<node.ntype, "(", "\n">>
       \o ReprChildren(node.children, 1, level + 1) \o Indent(level) \o <<")">>
\* for c in self.children: s += c.__repr__(level + 1) + ",\n"
ReprChildren(children, i, level) ==
  IF i > Len(children) THEN <<>>
  ELSE Repr(children[i], level) \o <<",", "\n">> \o ReprChildren(children, i + 1, level)

RECURSIVE Strip(_)
\* str.strip(): leading and trailing white space removed.
Strip(t) ==
  IF t = <<>> THEN t
  ELSE IF IsSpace(t[1]) THEN Strip(Tail(t))
  ELSE IF IsSpace(t[Len(t)]) THEN Strip(Butlast(t))
  ELSE t
RECURSIVE RStripComma(_)
\* str.rstrip(",")
RStripComma(t) == IF t # <<>> /\ t[Len(t)] = "," THEN RStripComma(Butlast(t)) ELSE t
\* The string a token run spells: a leaf written by __repr__ holds one word.
Text(t) == IF t = <<>> THEN PyNone ELSE IF Len(t) = 1 THEN t[1] ELSE "<several tokens>"

RECURSIVE SplitTop(_, _, _, _, _)
\* The character loop of parse_block: the stripped, non-empty pieces of
\* `inside` between the commas at depth 0.
SplitTop(inside, i, depth, buff, acc) ==
  LET flush == IF Strip(buff) # <<>> THEN Append(acc, Strip(buff)) ELSE acc
  IN IF i > Len(inside) THEN flush
     ELSE IF inside[i] = "(" THEN SplitTop(inside, i + 1, depth + 1, Append(buff, "("), acc)
     ELSE IF inside[i] = ")" THEN SplitTop(inside, i + 1, depth - 1, Append(buff, ")"), acc)
     ELSE IF inside[i] = "," /\ depth = 0 THEN SplitTop(inside, i + 1, depth, <<>>, flush)
     ELSE SplitTop(inside, i + 1, depth, Append(buff, inside[i]), acc)

RECURSIVE parse_block(_)
RECURSIVE ParseAll(_, _)
\* parse_block(s); NoTree stands for the None of a text the pattern
\* (\w+)\((.*)\) does not match.
parse_block(s) ==
  LET closing == {k \in 3..Len(s) : s[k] = ")"}
  IN IF ~(Len(s) >= 3 /\ IsWord(s[1]) /\ s[2] = "(" /\ closing # {}) THEN NoTree
     ELSE LET ntype == s[1]
              inside == Strip(SubSeq(s, 3, MaxOfSet(closing) - 1))
          IN IF ntype \in {"TASK", "EVENT", "NULL"}
             THEN Node(ntype, Text(RStripComma(inside)), <<>>)
             ELSE Node(ntype, PyNone, ParseAll(SplitTop(inside, 1, 0, <<>>, <<>>), 1))
\* [ch for ch in children if ch] over the parsed pieces
ParseAll(pieces, i) ==
  IF i > Len(pieces) THEN <<>>
  ELSE LET ch == parse_block(pieces[i])
       IN (IF ch = NoTree THEN <<>> ELSE <<ch>>) \o ParseAll(pieces, i + 1)
parse_pst_text(text) == parse_block(Strip(text))

\* ------------------------------------------------------------ the renderer
\* A BPMNBuilder: the id counter, the process children (elements with their
\* incoming/outgoing refs, and sequence flows), and the diagram plane
\* (shapes_info and the BPMNEdge elements). An id f"{prefix}_{i}" is <<prefix, i>>.
NoId == <<"None", 0>>
\* new_id(prefix)
new_id(b, prefix) == [b |-> [b EXCEPT !.next_id = @ + 1], id |-> <<prefix, b.next_id>>]
\* add_shape that records no bounds for a gateway (is_marker).
add_shape_NoMarkerBounds(b, elem_id, x, y, w, h, is_marker) ==
  IF is_marker THEN b
  ELSE [b EXCEPT !.shapes_info = Append(@, [id |-> elem_id, x |-> x, y |-> y, w |-> w, h |-> h,
                                            marker |-> is_marker])]
\* add_shape(elem_id, x, y, w, h, is_marker)
add_shape(b, elem_id, x, y, w, h, is_marker) ==
  [b EXCEPT !.shapes_info = Append(@, [id |-> elem_id, x |-> x, y |-> y, w |-> w, h |-> h,
                                       marker |-> is_marker])]
HasShape(b, id) == \E i \in DOMAIN b.shapes_info : b.shapes_info[i].id = id
\* shapes_info[id]: the bounds recorded last for id
ShapeOf(b, id) ==
  b.shapes_info[MaxOfSet({i \in DOMAIN b.shapes_info : b.shapes_info[i].id = id})]
\* add_flow(src, tgt): the sequenceFlow, the outgoing/incoming refs of the
\* known elements, and the two-point BPMNEdge when both bounds are recorded.
add_flow(b, src, tgt) ==
  LET f == new_id(b, "Flow")
      refs(el) == [el EXCEPT !.outgoing = IF el.id = src THEN Append(@, f.id) ELSE @,
                             !.incoming = IF el.id = tgt THEN Append(@, f.id) ELSE @]
      withflow == [f.b EXCEPT
        !.flows = Append(@, [id |-> f.id, sourceRef |-> src, targetRef |-> tgt]),
        !.elements = [i \in DOMAIN b.elements |-> refs(b.elements[i])]]
      e == new_id(withflow, "Edge")
      sh == ShapeOf(b, src)
      th == ShapeOf(b, tgt)
  IN IF HasShape(b, src) /\ HasShape(b, tgt)
     THEN [e.b EXCEPT !.edges = Append(@, [id |-> e.id, bpmnElement |-> f.id,
             waypoints |-> << <<sh.x + sh.w, sh.y + (sh.h \div 2)>>, <<th.x, th.y + (th.h \div 2)>> >>])]
     ELSE withflow
\* ET.SubElement(self.process, tag, {id, name}); self.elements[elem_id] = elem
add_element(b, elem_id, tag, name) ==
  [b EXCEPT !.elements = Append(@, [id |-> elem_id, tag |-> tag, name |-> name,
                                    incoming |-> <<>>, outgoing |-> <<>>])]
\* "start" in name.lower() / "end" in name.lower(), for the labels of the graphs
HasStart(name) == name \in {"Start", "Body_of_Start"}
HasEnd(name) == name \in {"End", "Body_of_End"}
\* `node.value or default`
ValueOr(value, default) == IF value = PyNone THEN default ELSE value
\* A leaf of the renderer: one element with its shape; entry = exit = its id.
Place(b, prefix, tag, name, x, y, w, h) ==
  LET n == new_id(b, prefix)
  IN [b |-> add_shape(add_element(n.b, n.id, tag, name), n.id, x, y, w, h, FALSE),
      entry |-> n.id, exit |-> n.id, x |-> x, y |-> y]

RECURSIVE build(_, _, _, _)
RECURSIVE BuildSeq(_, _, _, _, _, _, _)
RECURSIVE BuildBranches(_, _, _, _, _, _, _)
RECURSIVE JoinBranches(_, _, _, _)
\* The SEQ loop from child i on: r carries the builder and the cursor.
BuildSeq(b, children, i, x, y, first_entry, prev_exit) ==
  IF i > Len(children)
  THEN [b |-> b, entry |-> IF first_entry # NoId THEN first_entry ELSE prev_exit,
        exit |-> prev_exit, x |-> x, y |-> y]
  ELSE LET c == build(b, children[i], x, y)
           linked == IF prev_exit # NoId THEN add_flow(c.b, prev_exit, c.entry) ELSE c.b
       IN BuildSeq(linked, children, i + 1, c.x + 200, c.y,
                   IF first_entry = NoId THEN c.entry ELSE first_entry, c.exit)
\* The branch loop of XOR/AND from child i on; yields the builder and branch_exits.
BuildBranches(b, children, i, x, branch_y, split_id, branch_exits) ==
  IF i > Len(children) THEN [b |-> b, branch_exits |-> branch_exits]
  ELSE LET c == build(b, children[i], x + 250, branch_y)
       IN BuildBranches(add_flow(c.b, split_id, c.entry), children, i + 1, x, branch_y + 200,
                        split_id, Append(branch_exits, c.exit))
\* JoinBranches that links only the first branch to the join.
JoinBranches_FirstOnly(b, branch_exits, i, join_id) ==
  IF branch_exits = <<>> THEN b ELSE add_flow(b, branch_exits[1], join_id)
\* for exit_id in branch_exits: self.add_flow(exit_id, join_id)
JoinBranches(b, branch_exits, i, join_id) ==
  IF i > Len(branch_exits) THEN b
  ELSE JoinBranches(add_flow(b, branch_exits[i], join_id), branch_exits, i + 1, join_id)
\* BPMNBuilder.build(node, x, y) -> (entry_id, exit_id, x, y)
build(b, node, x, y) ==
  IF node.ntype = "SEQ" THEN BuildSeq(b, node.children, 1, x, y, NoId, NoId)
  ELSE IF node.ntype = "TASK"
  THEN Place(b, "Task", "task", ValueOr(node.value, "Task"), x, y, 100, 80)
  ELSE IF node.ntype = "EVENT"
  THEN LET name == ValueOr(node.value, "Event")
           tag == IF HasStart(name) THEN "startEvent"
                  ELSE IF HasEnd(name) THEN "endEvent" ELSE "intermediateCatchEvent"
       IN Place(b, "Event", tag, name, x, y, 36, 36)
  ELSE IF node.ntype \in {"XOR", "AND"}
  THEN LET kind == IF node.ntype = "XOR" THEN "exclusiveGateway" ELSE "parallelGateway"
           s == new_id(b, "Split")
           withsplit == add_shape(add_element(s.b, s.id, kind, node.ntype), s.id, x, y, 50, 50, TRUE)
           branch_y == y - (Len(node.children) - 1) * 100
           br == BuildBranches(withsplit, node.children, 1, x, branch_y, s.id, <<>>)
           j == new_id(br.b, "Join")
           withjoin == add_shape(add_element(j.b, j.id, kind, "Join"), j.id, x + 500, y, 50, 50, TRUE)
       IN [b |-> JoinBranches(withjoin, br.branch_exits, 1, j.id),
           entry |-> s.id, exit |-> j.id, x |-> x + 500, y |-> y]
  ELSE IF node.ntype = "LOOP"
  THEN LET cond == build(b, node.children[1], x, y)
           body == build(cond.b, node.children[2], x + 200, y + 100)
       IN [b |-> add_flow(add_flow(body.b, cond.exit, body.entry), body.exit, cond.entry),
           entry |-> cond.entry, exit |-> cond.exit, x |-> x + 400, y |-> y + 200]
  ELSE IF node.ntype = "NULL"
  THEN Place(b, "Null", "task", ValueOr(node.value, "None"), x, y, 80, 60)
  ELSE Place(b, "Unknown", "task", ValueOr(node.value, node.ntype), x, y, 100, 80)
\* builder = BPMNBuilder(); builder.build(pst)
Render(pst) == build(NewBuilder, pst, 100, 100).b

\* ------------------------------------------------- rendering a parsed tree
\* The leaves parse_pst_text hands over: a task, an event, NULL, and a node
\* of a kind build does not know (LOOPBACK, parsed without value).
LeafTrees ==
  {Node("TASK", "A", <<>>), Node("EVENT", "Start", <<>>), NullNode,
   Node("LOOPBACK", PyNone, <<>>)}
RECURSIVE TreesOfDepth(_)
\* The trees of nesting depth at most d: SEQ, XOR and AND with up to MaxKids
\* children (none included) and LOOP with two.
TreesOfDepth(d) ==
  IF d = 0 THEN LeafTrees
  ELSE LET sub == TreesOfDepth(d - 1)
           kids == UNION {[1..k -> sub] : k \in 0..MaxKids}
       IN sub \cup {Node(t, PyNone, c) : t \in {"SEQ", "XOR", "AND"}, c \in kids}
              \cup {Node("LOOP", PyNone, c) : c \in [1..2 -> sub]}
Trees == TreesOfDepth(MaxTreeDepth)

\* pst = parse_pst_text(pst_text); builder = BPMNBuilder()
InitRender ==
  /\ result \in Trees
  /\ builder = NewBuilder
  /\ pc = "parsed"
  /\ graph = LoopGraph
  /\ start_id = None
  /\ stack = <<>>
  /\ run = 1
  /\ first = NoTree
  /\ picked = NoPicks

\* builder.build(pst)
BuildTree ==
  /\ pc = "parsed"
  /\ builder' = build(builder, result, 100, 100).b
  /\ pc' = "built"
  /\ UNCHANGED <<graph, start_id, stack, result, run, first, picked>>

NextRender == BuildTree

\* The renderer run on a tree read from the text notation.
SpecRender == InitRender /\ [][NextRender]_vars

\* ================================================================== claims
MainFrame == stack[1]
Done == pc = "done"
LeafKinds == {"TASK", "EVENT", "NULL", "LOOPBACK"}
RECURSIVE Leaves(_)
RECURSIVE LeavesOfAll(_, _)
\* The leaves of a tree, left to right.
Leaves(node) ==
  IF node.ntype \in LeafKinds THEN <<node>> ELSE LeavesOfAll(node.children, 1)
LeavesOfAll(children, i) ==
  IF i > Len(children) THEN <<>> ELSE Leaves(children[i]) \o LeavesOfAll(children, i + 1)
RECURSIVE SubTrees(_)
\* Every node of a tree, the root included.
SubTrees(node) ==
  {node} \cup UNION {SubTrees(node.children[i]) : i \in DOMAIN node.children}
CountLeaves(tree, ntype, value) ==
  Cardinality({i \in DOMAIN Leaves(tree) : Leaves(tree)[i].ntype = ntype /\ Leaves(tree)[i].value = value})

\* ---- C1: structuring terminates on every finite flow graph.
\* The value build_path_until returns depends only on its start node, its stop
\* node, the set of enclosing splits it is given and the graph; a call that
\* runs inside a call with the same three arguments therefore never returns.
ArgStack(f) == IF f.pos = "kids" THEN Butlast(f.active_split_stack) ELSE f.active_split_stack
SameCall(f, g) ==
  /\ f.node_id = g.node_id /\ f.stop_id = g.stop_id
  /\ {ArgStack(f)[i] : i \in DOMAIN ArgStack(f)} = {ArgStack(g)[i] : i \in DOMAIN ArgStack(g)}
\* C1: no build_path_until call is nested in an identical call (the recursion
\* is well founded, so every run ends).
C1_Terminates ==
  \A i, j \in DOMAIN stack :
    (i < j /\ stack[i].fn = "path" /\ stack[j].fn = "path") => ~SameCall(stack[i], stack[j])

\* ---- C2: leaf preservation.
SyntheticLeaf(l) == l.ntype = "TASK" /\ l.value \in BodyLabels
\* C2: every task and event of the graph is exactly one TASK/EVENT leaf of
\* the returned tree, and every other TASK/EVENT leaf is a synthetic loop body.
C2_LeafPreservation ==
  Done =>
    /\ \A n \in tasks : CountLeaves(result, "TASK", label_by_id(n)) = 1
    /\ \A n \in events : CountLeaves(result, "EVENT", label_by_id(n)) = 1
    /\ \A i \in DOMAIN Leaves(result) :
         LET l == Leaves(result)[i]
         IN l.ntype \in {"TASK", "EVENT"} =>
              \/ SyntheticLeaf(l)
              \/ \E n \in Nodes : l.value = label_by_id(n)
                                  /\ n \in (IF l.ntype = "TASK" THEN tasks ELSE events)

\* ---- C3: find_join.
RECURSIVE Within(_, _)
\* The nodes reachable from a along at most k flows.
Within(a, k) ==
  IF k = 0 THEN {a}
  ELSE LET w == Within(a, k - 1)
       IN w \cup {v \in Nodes : \E u \in w : \E i \in DOMAIN succ[u] : succ[u][i] = v}
Reachable(a) == Within(a, Cardinality(Nodes))
\* The length of a shortest path from a to b (b reachable from a).
Distance(a, b) == MinOf({k \in 0..Cardinality(Nodes) : b \in Within(a, k)})
\* j is a right answer of find_join(s, kind).
JoinOK(s, kind, j) ==
  LET outs == succ[s]
      merges == {n \in Nodes : /\ graph.tag[n] = (IF kind = "XOR" THEN "xor" ELSE "and")
                               /\ indeg(n) > 1
                               /\ \A i \in DOMAIN outs : n \in Reachable(outs[i])}
      rank(n) == MaxOfSet({Distance(outs[i], n) : i \in DOMAIN outs})
  IN IF Len(outs) <= 1 \/ merges = {} THEN j = None
     ELSE j \in merges /\ \A m \in merges : rank(j) <= rank(m)
AtStart == pc = "run" /\ Len(stack) = 1 /\ MainFrame.current = None
\* C3: find_join returns none for a node with at most one outgoing flow or
\* without candidate, and else a same-kind gateway of in-degree > 1 reachable
\* from every successor, of minimal maximal branch distance; in the round-trip
\* graph the join of X is Join. Checked for the join of every split a run
\* expands, and for every node and kind of the loaded graph.
C3_FindJoin ==
  /\ \A i \in DOMAIN stack :
       stack[i].pos = "kids" => JoinOK(stack[i].current, stack[i].kind, stack[i].join)
  /\ AtStart => \A s \in Nodes : \A k \in {"XOR", "AND"} : \A j \in find_join(s, k) : JoinOK(s, k, j)
  /\ graph = RoundTripGraph => find_join(3, "XOR") = {6}
\* A split is being expanded whose join is nearer than another candidate.
C3_Witness ==
  \E i \in DOMAIN stack :
    /\ stack[i].pos = "kids" /\ stack[i].join # None
    /\ \E n \in Nodes \ {stack[i].join} :
         /\ is_candidate(n, stack[i].kind)
         /\ \A o \in DOMAIN succ[stack[i].current] : n \in Reachable(succ[stack[i].current][o])
         /\ \E o \in DOMAIN succ[stack[i].current] :
              Distance(succ[stack[i].current][o], n) > 1

\* ---- C4: the round-trip scenario.
Leaf(ntype, value) == Node(ntype, value, <<>>)
RoundTripTree ==
  Node("SEQ", PyNone, <<Leaf("EVENT", "Start"), Leaf("TASK", "A"),
                        Node("XOR", "X", <<Leaf("TASK", "B"), Leaf("TASK", "C")>>),
                        Leaf("TASK", "D"), Leaf("EVENT", "End")>>)
EventTags == {"startEvent", "endEvent", "intermediateCatchEvent"}
CountElements(b, tags, prefixes) ==
  Cardinality({i \in DOMAIN b.elements : b.elements[i].tag \in tags /\ b.elements[i].id[1] \in prefixes})
NumFlowsOfGraph == Cardinality(UNION {{<<u, i>> : i \in DOMAIN succ[u]} : u \in Nodes})
RoundTripShape(leaves) ==
  (graph = RoundTripGraph /\ Done) =>
    /\ result = RoundTripTree
    /\ LET b == Render(result)
       IN /\ CountElements(b, {"task"} \cup EventTags, {"Task", "Event"}) = leaves
          /\ CountElements(b, {"exclusiveGateway"}, {"Split"}) = 1
          /\ CountElements(b, {"exclusiveGateway"}, {"Join"}) = 1
          /\ CountElements(b, {"parallelGateway"}, {"Split", "Join"}) = 0
          /\ Len(b.flows) = NumFlowsOfGraph /\ NumFlowsOfGraph = 8
\* C4 as claimed: the scenario structures to SEQ[EVENT(Start), TASK(A),
\* XOR[TASK(B), TASK(C)], TASK(D), EVENT(End)] and renders to five task/event
\* elements, one exclusive split, one exclusive join and eight sequence flows.
C4_RoundTripFive == RoundTripShape(5)
\* C4 amended: the rendering has six task/event elements (Start, A, B, C, D, End).
C4_RoundTripSix == RoundTripShape(6)
C4_Witness == graph = RoundTripGraph /\ Done /\ Len(Render(result).flows) = 8

\* ---- C5: the loop scenario.
LoopbackTree ==
  Node("SEQ", PyNone, <<Leaf("EVENT", "Start"), Leaf("TASK", "A"), Leaf("TASK", "B"),
                        Leaf("LOOPBACK", "A")>>)
\* C5 as claimed: the scenario ends with a tree holding a LOOP node whose
\* condition covers A and whose body is a synthetic placeholder task.
C5_LoopNode ==
  (graph = LoopGraph /\ Done) =>
    \E t \in SubTrees(result) :
      /\ t.ntype = "LOOP" /\ Len(t.children) = 2
      /\ \E i \in DOMAIN Leaves(t.children[1]) : Leaves(t.children[1])[i] = Leaf("TASK", "A")
      /\ \A i \in DOMAIN Leaves(t.children[2]) : SyntheticLeaf(Leaves(t.children[2])[i])
\* C5 amended: the scenario has no split, so the branch builder never runs;
\* the backbone walks Start, A, X, B, meets A again and ends with
\* SEQ[EVENT(Start), TASK(A), TASK(B), LOOPBACK(A)]: a LOOPBACK sentinel and
\* no LOOP node. The walk never gets stuck before it ends.
C5_LoopbackSentinel ==
  graph = LoopGraph =>
    /\ Len(stack) = 1
    /\ Len(MainFrame.seq_children) <= 4
    /\ pc = "run" => ENABLED Next
    /\ Done => /\ result = LoopbackTree
               /\ \A t \in SubTrees(result) : t.ntype # "LOOP"
C5_Witness == graph = LoopGraph /\ Done /\ Leaf("LOOPBACK", "A") \in SubTrees(result)

\* ---- C6: the no-join fallback.
IsSplit(n) == n # None /\ n \notin events /\ outdeg(n) > 1
\* The backbone has just finished a split for which find_join returned none.
NoJoinSplitDone(f) ==
  /\ f.pos = "loop" /\ IsSplit(f.current) /\ f.join = None
  /\ Len(f.kids) = outdeg(f.current)
\* xor gateway n3 -> end events n1, n2
TwoEndsGraph ==
  [ids |-> <<"n1", "n2", "n3">>, tag |-> <<"end", "end", "xor">>,
   succ |-> <<(<<>>), (<<>>), (<<1, 2>>)>>]
\* C6: at a backbone split without join every branch is built by the branch
\* builder with no stop node, one child per outgoing flow; the Branch is the
\* last element of the top-level sequence and the backbone goes no further;
\* two branches ending in distinct end events give two EVENT leaves.
C6_NoJoinFallback ==
  /\ (Len(stack) >= 2 /\ MainFrame.join = None) =>
       /\ stack[2].fn = "path" /\ stack[2].stop_id = None
       /\ stack[2].node_id = NextOut(MainFrame)
  /\ (pc = "run" /\ MainFrame.pos = "kids" /\ MainFrame.join = None /\ Len(stack) = 1
        /\ Len(MainFrame.kids) < outdeg(MainFrame.current)) => ENABLED MainKidCall
  /\ NoJoinSplitDone(MainFrame) =>
       /\ MainFrame.q = <<>>
       /\ MainFrame.seq_children # <<>>
       /\ MainFrame.seq_children[Len(MainFrame.seq_children)]
            = Node(MainFrame.kind, label_by_id(MainFrame.current), MainFrame.kids)
       /\ MainFrame.current \in gateways => Done
       /\ Done => result = Normalize(MainFrame.seq_children)
  /\ (graph = TwoEndsGraph /\ Done) =>
       result = Node("XOR", "n3", <<Leaf("EVENT", "n1"), Leaf("EVENT", "n2")>>)
\* A gateway split without join has ended the backbone after other items.
C6_Witness ==
  /\ Done /\ NoJoinSplitDone(MainFrame) /\ MainFrame.current \in gateways
  /\ Len(MainFrame.seq_children) > 1
  /\ \E i \in DOMAIN MainFrame.kids : MainFrame.kids[i].ntype = "EVENT"

\* ---- C7: no single-child SEQ.
\* C7: no SEQ node with exactly one child occurs in the returned tree.
C7_NoSingleChildSeq ==
  Done => \A t \in SubTrees(result) : ~(t.ntype = "SEQ" /\ Len(t.children) = 1)

\* ---- C8: determinism.
\* C8: the second structuring of a graph returns the tree the first returned.
C8_Deterministic == (run = 2 /\ Done) => result = first

\* ---- C9: start-node selection.
\* C9: the start node is a start event without predecessor if there is one,
\* else a start event if there is one, else a node without predecessor if
\* there is one, else some node of the graph.
C9_StartPriority ==
  LET rootstarts == {n \in start_events : indeg(n) = 0}
      roots == {n \in Nodes : indeg(n) = 0}
  IN /\ start_id \in Nodes
     /\ rootstarts # {} => start_id \in rootstarts
     /\ (rootstarts = {} /\ start_events # {}) => start_id \in start_events
     /\ (start_events = {} /\ roots # {}) => start_id \in roots
\* A start event with predecessors is chosen although another node has none.
C9_Witness ==
  /\ Done
  /\ start_id \in start_events /\ indeg(start_id) > 0
  /\ \E n \in Nodes : indeg(n) = 0

\* ---- C10: textual round trip.
\* C10: parsing the text __repr__ writes for a structured tree gives the tree
\* back (same kinds, same children in order, same labels).
C10_TextRoundTrip == Done => parse_pst_text(Repr(result, 0)) = result
\* ---- C11: every node with several successors becomes a Branch.
\* The node the top activation visits and dispatches by kind in this step:
\* the backbone pops a node it has not emitted; the branch builder is at a
\* node inside its while loop with no successor among the enclosing splits.
Dispatches(n) ==
  \/ MainHead /\ n = Head(Top.q) /\ n \notin Top.seen
  \/ PathHead /\ n = Top.current /\ Hit(Top) = None
\* The step closes the for loop over succ[current] of the top activation.
ClosesBranch ==
  /\ pc = "run" /\ Top.pos = "kids"
  /\ Len(stack') = Len(stack) /\ stack'[Len(stack)].pos = "loop"
LastOf(sq) == sq[Len(sq)]
\* C11: a step that dispatches a node with more than one outgoing flow opens
\* a Branch for it in the same activation (it neither moves on along one
\* successor nor ends the walk), and the Branch a builder appends for a node
\* has one child per outgoing flow of the node, hence at least two.
C11_SplitBecomesBranch ==
  [][/\ \A n \in Nodes :
          (Dispatches(n) /\ outdeg(n) > 1) =>
             /\ Len(stack') = Len(stack)
             /\ stack'[Len(stack)].pos = "kids"
             /\ stack'[Len(stack)].current = n
     /\ ClosesBranch =>
          LET branch == LastOf(stack'[Len(stack)].seq_children)
          IN /\ branch.ntype \in {"XOR", "AND"}
             /\ branch.value = label_by_id(Top.current)
             /\ Len(branch.children) = outdeg(Top.current)
             /\ Len(branch.children) >= 2]_vars

\* ---- C12: the LOOP node of the branch builder.
\* The step is taken by a branch builder whose current node has a successor
\* among the enclosing splits.
HitsEnclosingSplit == PathHead /\ Hit(Top) # None
\* C12: such a step returns LOOP[condition, body] to the caller, the condition
\* being what the call has accumulated (NULL, the one item, or a SEQ of the
\* items) and the body one synthetic TASK leaf labelled from the split hit,
\* whatever the start node of the branch.
C12_LoopShape ==
  [][HitsEnclosingSplit =>
       LET caller == Len(stack) - 1
           body == Leaf("TASK", BodyOfLabel(label_by_id(Hit(Top))))
       IN /\ Len(stack') = caller
          /\ stack'[caller].kids =
               Append(stack[caller].kids,
                      Node("LOOP", PyNone, <<Normalize(Top.seq_children), body>>))]_vars

\* ---- C13: flows, identifiers and connectors of a rendering.
Ids(sq) == {sq[i].id : i \in DOMAIN sq}
\* The element was allocated before the flow: its counter value is smaller.
Earlier(b, id, fid) == \E i \in DOMAIN b.elements : b.elements[i].id = id /\ id[2] < fid[2]
\* The tree keeps the Tree Model invariants.
RECURSIVE WellFormed(_)
WellFormed(node) ==
  /\ node.ntype \in {"SEQ", "XOR", "AND"} => Len(node.children) >= 1
  /\ node.ntype = "LOOP" => Len(node.children) = 2
  /\ \A i \in DOMAIN node.children : WellFormed(node.children[i])
\* C13: after build on a well-formed tree, every sequence flow joins two
\* elements allocated before it that have recorded bounds, all identifiers
\* handed out are pairwise distinct, and every flow has exactly one
\* connector, of two waypoints (as many BPMNEdge as sequenceFlow elements).
C13_FlowsConnected ==
  (pc = "built" /\ WellFormed(result)) =>
    /\ \A i \in DOMAIN builder.flows :
         LET f == builder.flows[i]
         IN /\ Earlier(builder, f.sourceRef, f.id) /\ Earlier(builder, f.targetRef, f.id)
            /\ HasShape(builder, f.sourceRef) /\ HasShape(builder, f.targetRef)
            /\ Cardinality({j \in DOMAIN builder.edges : builder.edges[j].bpmnElement = f.id}) = 1
    /\ \A j \in DOMAIN builder.edges : Len(builder.edges[j].waypoints) = 2
    /\ Cardinality(Ids(builder.elements) \cup Ids(builder.flows) \cup Ids(builder.edges))
         = Len(builder.elements) + Len(builder.flows) + Len(builder.edges)
    /\ Cardinality({builder.shapes_info[i].id : i \in DOMAIN builder.shapes_info})
         = Len(builder.shapes_info)
    /\ Len(builder.edges) = Len(builder.flows)
\* A branch holding a loop and a sequence has been rendered, with flows.
C13_Witness ==
  /\ pc = "built" /\ result.ntype = "XOR" /\ Len(result.children) = 2
  /\ result.children[1].ntype = "LOOP" /\ result.children[2].ntype = "SEQ"
  /\ Len(builder.flows) >= 5 /\ Len(builder.edges) = Len(builder.flows)
====
